---- MODULE Spec2Model ----
(***************************************************************************)
(* Model of pdf_locker.py: the password policy                             *)
(* (validate_password_strength), the password generator                    *)
(* (generate_random_password) and the protection pipeline (main and        *)
(* create_password_protected_pdf).                                         *)
(*                                                                         *)
(* A Python str is modelled as a sequence of one-character strings.        *)
(* Characters are ASCII; str.isdigit / isupper / islower are modelled on   *)
(* the ASCII alphabet below.                                               *)
(***************************************************************************)
EXTENDS Integers, Sequences, FiniteSets, TLC

VARIABLES
    candidate,   \* argument of a stand-alone validate_password_strength call
    verdict,     \* its outcome: "pending", "True", or the ValueError message
    gpc,         \* position inside a stand-alone generate_random_password call
    glist,       \* the local list `password` of generate_random_password
    gresult,     \* its return value
    pc,          \* position of main / create_password_protected_pdf
    password,    \* main's local `password`
    typed,       \* the entries read by getpass so far, in order
    out,         \* what has been printed, in order
    exc,         \* the exception in flight inside the try block
    inputKind,   \* the file at args.input: "missing", "denied", "malformed", "pdf"
    inPages,     \* the pages of the document at args.input
    inHandle,    \* pdf_file is open
    reader,      \* pdf_reader has been constructed
    copied,      \* number of pages iterated so far
    writer,      \* pdf_writer: [pages, key]
    outHandle,   \* output_file is open
    output,      \* the file at args.output: [state, pages, key]
    exited       \* main has returned

vars == <<candidate, verdict, gpc, glist, gresult, pc, password, typed, out,
          exc, inputKind, inPages, inHandle, reader, copied, writer,
          outHandle, output, exited>>

valVars == <<candidate, verdict>>
genVars == <<gpc, glist, gresult>>
runVars == <<pc, password, typed, out, exc, inputKind, inPages, inHandle,
             reader, copied, writer, outHandle, output, exited>>

----------------------------------------------------------------------------
(* Character classes *)

\* string.digits
digits == <<"0","1","2","3","4","5","6","7","8","9">>

\* string.ascii_uppercase
uppercase == <<"A","B","C","D","E","F","G","H","I","J","K","L","M",
               "N","O","P","Q","R","S","T","U","V","W","X","Y","Z">>

\* string.ascii_lowercase
lowercase == <<"a","b","c","d","e","f","g","h","i","j","k","l","m",
               "n","o","p","q","r","s","t","u","v","w","x","y","z">>

\* "!@#$%^&*()-_+=<>?/"
special_characters == <<"!","@","#","$","%","^","&","*","(",")",
                        "-","_","+","=","<",">","?","/">>

\* string.ascii_letters + string.digits + special_characters
all_characters == lowercase \o uppercase \o digits \o special_characters

Range(s) == { s[i] : i \in 1..Len(s) }

DigitChars == Range(digits)
UpperChars == Range(uppercase)
LowerChars == Range(lowercase)
\* The characters of the literal "!@#$%^&*()-_+=<>?/" of line 31.
SpecialChars == Range(special_characters)

isdigit(c) == c \in DigitChars
isupper(c) == c \in UpperChars
islower(c) == c \in LowerChars
isspecial(c) == c \in SpecialChars

\* any(flags), flags being the values of a generator expression, in order.
any(flags) == \E i \in 1..Len(flags) : flags[i]

\* (char.isdigit() for char in s), and the like.
each_isdigit(s) == [i \in 1..Len(s) |-> isdigit(s[i])]
each_isupper(s) == [i \in 1..Len(s) |-> isupper(s[i])]
each_islower(s) == [i \in 1..Len(s) |-> islower(s[i])]
each_isspecial(s) == [i \in 1..Len(s) |-> isspecial(s[i])]

----------------------------------------------------------------------------
(* validate_password_strength *)

MinLength == 16

MsgTooShort == "Password must be at least 16 characters long."
MsgNoDigit == "Password must include at least one digit."
MsgNoUpper == "Password must include at least one uppercase letter."
MsgNoLower == "Password must include at least one lowercase letter."
MsgNoSpecial == "Password must include at least one special character (!@#$%^&*()-_+=<>?/)."

\* Faulty variant: the length test written `<=`, so 16 characters are too few.
validate_strict_length(p) ==
    IF Len(p) <= MinLength THEN MsgTooShort
    ELSE IF ~ any(each_isdigit(p)) THEN MsgNoDigit
    ELSE IF ~ any(each_isupper(p)) THEN MsgNoUpper
    ELSE IF ~ any(each_islower(p)) THEN MsgNoLower
    ELSE IF ~ any(each_isspecial(p)) THEN MsgNoSpecial
    ELSE "True"

\* Faulty variant: the special-character test moved before the uppercase test.
validate_reordered(p) ==
    IF Len(p) < MinLength THEN MsgTooShort
    ELSE IF ~ any(each_isdigit(p)) THEN MsgNoDigit
    ELSE IF ~ any(each_isspecial(p)) THEN MsgNoSpecial
    ELSE IF ~ any(each_isupper(p)) THEN MsgNoUpper
    ELSE IF ~ any(each_islower(p)) THEN MsgNoLower
    ELSE "True"

\* Faulty variant: the lowercase test left out.
validate_no_lowercase(p) ==
    IF Len(p) < MinLength THEN MsgTooShort
    ELSE IF ~ any(each_isdigit(p)) THEN MsgNoDigit
    ELSE IF ~ any(each_isupper(p)) THEN MsgNoUpper
    ELSE IF ~ any(each_isspecial(p)) THEN MsgNoSpecial
    ELSE "True"

\* "True" when the function returns True, otherwise the message of the
\* ValueError it raises.
validate_password_strength(p) ==
    IF Len(p) < MinLength THEN MsgTooShort
    ELSE IF ~ any(each_isdigit(p)) THEN MsgNoDigit
    ELSE IF ~ any(each_isupper(p)) THEN MsgNoUpper
    ELSE IF ~ any(each_islower(p)) THEN MsgNoLower
    ELSE IF ~ any(each_isspecial(p)) THEN MsgNoSpecial
    ELSE "True"

----------------------------------------------------------------------------
(* generate_random_password *)

\* Bounds on the outcomes of the random module that are explored.
MaxChoice == 1   \* random.choice draws the last or one of the first MaxChoice characters of a class
MaxFree == 1     \* the first MaxFree fill draws are free, the later ones repeat the last
MaxShift == 1    \* random.shuffle yields a rotation by 0..MaxShift, possibly reversed

Min(a, b) == IF a < b THEN a ELSE b

\* random.choice(s) when the generator draws index i.
choice(s, i) == s[i]

\* range(12)
FillCount == 12

\* The list after lines 50-55: one character of each required set.
mandatory(rng) ==
    << choice(digits, rng.d), choice(uppercase, rng.u),
       choice(special_characters, rng.s), choice(lowercase, rng.l) >>

\* Faulty variant: one draw too few, range(11).
filled_short(list, rng) ==
    list \o [i \in 1..(FillCount - 1) |-> choice(all_characters, rng.draws[i])]

\* The list after line 59: FillCount more draws from all_characters.
filled(list, rng) ==
    list \o [i \in 1..FillCount |-> choice(all_characters, rng.draws[i])]

\* random.shuffle(list): the characters of list, permuted.  The outcomes
\* explored are the rotations to the left by rng.k, reversed when rng.rev.
shuffle(list, rng) ==
    LET n == Len(list)
        rot == [i \in 1..n |-> list[((i - 1 + rng.k) % n) + 1]]
    IN  IF rng.rev THEN [i \in 1..n |-> rot[n + 1 - i]] ELSE rot

\* ''.join(list): the concatenation of the one-character strings of list.
RECURSIVE join(_)
join(list) == IF list = <<>> THEN <<>> ELSE <<Head(list)>> \o join(Tail(list))

\* The value generate_random_password returns when the random module
\* produces the outcomes rng: the index drawn by each random.choice
\* (d, u, s, l, then draws) and the permutation of random.shuffle (k, rev).
generate_random_password(rng) ==
    join(shuffle(filled(mandatory(rng), rng), rng))

Sampled ==
    UNION { { s[i] : i \in 1..Min(MaxChoice, Len(s)) } \cup { s[Len(s)] } :
            s \in {digits, uppercase, lowercase, special_characters} }

\* The indexes random.choice(s) may draw, within the bounds.
Draw(s) == { i \in 1..Len(s) : s[i] \in Sampled }

\* The fill draws explored: the first MaxFree free, the later ones repeat.
FillDraws ==
    LET f == Min(MaxFree, FillCount) IN
    { [i \in 1..(FillCount + 1) |-> IF i <= f THEN pre[i] ELSE pre[f]] :
      pre \in [1..f -> Draw(all_characters)] }

NoRng == [d |-> 1, u |-> 1, s |-> 1, l |-> 1,
          draws |-> [i \in 1..(FillCount + 1) |-> 1], k |-> 0, rev |-> FALSE]

\* Lines 50-55.
GenMandatory ==
    /\ gpc = "start"
    /\ \E d \in Draw(digits), u \in Draw(uppercase),
          s \in Draw(special_characters), l \in Draw(lowercase) :
          glist' = mandatory([NoRng EXCEPT !.d = d, !.u = u, !.s = s, !.l = l])
    /\ gpc' = "mandatory"
    /\ UNCHANGED <<gresult, valVars, runVars>>

\* Lines 58-59.
GenFill ==
    /\ gpc = "mandatory"
    /\ \E draws \in FillDraws :
          glist' = filled(glist, [NoRng EXCEPT !.draws = draws])
    /\ gpc' = "filled"
    /\ UNCHANGED <<gresult, valVars, runVars>>

\* Line 62.
GenShuffle ==
    /\ gpc = "filled"
    /\ \E k \in 0..MaxShift, rev \in BOOLEAN :
          glist' = shuffle(glist, [NoRng EXCEPT !.k = k, !.rev = rev])
    /\ gpc' = "shuffled"
    /\ UNCHANGED <<gresult, valVars, runVars>>

\* Line 65.
GenReturn ==
    /\ gpc = "shuffled"
    /\ gresult' = join(glist)
    /\ gpc' = "returned"
    /\ UNCHANGED <<glist, valVars, runVars>>

----------------------------------------------------------------------------
(* Stand-alone calls of validate_password_strength *)

MaxPrefix == 3   \* candidates start with up to MaxPrefix freely chosen characters
LenSlack == 1    \* and are padded to a length within LenSlack of MinLength

\* One character of each class, and two of no class.
InputChars == {"7", "Q", "k", "?", "~", " "}

\* Every character of the four classes, and three of no class.
ProbeChars == Range(all_characters) \cup {"~", " ", "."}

RECURSIVE Prefixes(_)
Prefixes(n) ==
    IF n = 0 THEN {<<>>}
    ELSE LET shorter == Prefixes(n - 1) IN
         shorter \cup { Append(p, c) : p \in { q \in shorter : Len(q) = n - 1 },
                                       c \in InputChars }

Padded(pre, c, n) == [i \in 1..n |-> IF i <= Len(pre) THEN pre[i] ELSE c]

\* The candidates explored: the short prefixes, the prefixes padded with one
\* character to a length around MinLength, and, for every character, the
\* strings of MinLength characters that hold it and three, or all four, of
\* the classes.
Candidates ==
    Prefixes(MaxPrefix) \cup
    { Padded(pre, c, n) : pre \in Prefixes(MaxPrefix), c \in InputChars,
                          n \in (MinLength - LenSlack)..(MinLength + LenSlack) }
    \cup
    { Padded(pre, c, MinLength) :
        pre \in { <<"7","Q","k">>, <<"7","Q","?">>, <<"7","k","?">>,
                  <<"Q","k","?">>, <<"7","Q","k","?">> },
        c \in ProbeChars }

ValidateCall ==
    /\ verdict = "pending"
    /\ verdict' = validate_password_strength(candidate)
    /\ UNCHANGED <<candidate, genVars, runVars>>

----------------------------------------------------------------------------
(* main and create_password_protected_pdf *)

MaxAttempts == 3  \* entries read by getpass in one run
MaxPages == 3     \* pages of the input document

\* The outcomes of the random module explored inside a run.
RunRng ==
    { NoRng,
      [d |-> 10, u |-> 26, s |-> 18, l |-> 26,
       draws |-> <<80, 53, 27, 1, 62, 52, 26, 63, 70, 5, 33, 58, 44>>,
       k |-> 5, rev |-> TRUE] }

Rep(c, n) == [i \in 1..n |-> c]

\* What the caller may type at "Enter the password for the PDF: ".
Entries ==
    { <<>>,
      <<"s","h","o","r","t","1","A","!">>,
      <<"1","A","!">> \o Rep("X", 13),
      <<"1","A","a">> \o Rep("x", 13),
      <<"1","A","a","!">> \o Rep("x", 12),
      <<"A","b","c","d","e","f","1","!","g","h","i","j","k","l","m","n","o">> }

\* What the caller may type at "...generate a strong random password? (y/n): ".
Answers ==
    { <<"y">>, <<"Y">>, <<" ","y"," ">>, <<"n">>, <<"y","e","s">>, <<>> }

isspace(c) == c \in {" "}

\* str.strip()
RECURSIVE lstrip(_)
lstrip(s) == IF s # <<>> /\ isspace(Head(s)) THEN lstrip(Tail(s)) ELSE s

RECURSIVE rstrip(_)
rstrip(s) ==
    IF s # <<>> /\ isspace(s[Len(s)]) THEN rstrip(SubSeq(s, 1, Len(s) - 1)) ELSE s

strip(s) == rstrip(lstrip(s))

\* str.lower()
lower(s) ==
    [i \in 1..Len(s) |->
        IF isupper(s[i])
        THEN lowercase[CHOOSE j \in 1..Len(uppercase) : uppercase[j] = s[i]]
        ELSE s[i]]

NoChars == <<>>
Msg(k, pw, msg) == [k |-> k, pw |-> pw, msg |-> msg]

\* The exception classes raised inside the try block, with their bases.
Bases(cls) ==
    CASE cls = "FileNotFoundError" -> {"FileNotFoundError", "OSError", "Exception"}
      [] cls = "PermissionError" -> {"PermissionError", "OSError", "Exception"}
      [] cls = "OSError" -> {"OSError", "Exception"}
      [] cls = "PdfReadError" -> {"PdfReadError", "Exception"}
      [] cls = "ValueError" -> {"ValueError", "Exception"}
      [] OTHER -> {"Exception"}

isinstance(e, cls) == cls \in Bases(e.cls)

Raise(cls, msg) == [cls |-> cls, msg |-> msg]
NoExc == Raise("none", "")

\* Errors the PDF library may raise on a document it has parsed.
CollabErrors == {"PdfReadError", "ValueError", "Exception"}

\* Faulty variant: the clause `except Exception` placed first.
except_generic_first(e) ==
    IF isinstance(e, "Exception") THEN Msg("Error", NoChars, e.msg)
    ELSE IF isinstance(e, "FileNotFoundError") THEN Msg("NotFound", NoChars, "")
    ELSE IF isinstance(e, "PdfReadError") THEN Msg("NotValidPdf", NoChars, "")
    ELSE IF isinstance(e, "ValueError") THEN Msg("PasswordError", NoChars, e.msg)
    ELSE Msg("propagate", NoChars, "")

\* Faulty variant: no clause `except Exception`.
except_no_generic(e) ==
    IF isinstance(e, "FileNotFoundError") THEN Msg("NotFound", NoChars, "")
    ELSE IF isinstance(e, "PdfReadError") THEN Msg("NotValidPdf", NoChars, "")
    ELSE IF isinstance(e, "ValueError") THEN Msg("PasswordError", NoChars, e.msg)
    ELSE Msg("propagate", NoChars, "")

\* The except clauses of create_password_protected_pdf, in order: the message
\* printed for e, or "propagate" when no clause matches.
except_clause(e) ==
    IF isinstance(e, "FileNotFoundError") THEN Msg("NotFound", NoChars, "")
    ELSE IF isinstance(e, "PdfReadError") THEN Msg("NotValidPdf", NoChars, "")
    ELSE IF isinstance(e, "ValueError") THEN Msg("PasswordError", NoChars, e.msg)
    ELSE IF isinstance(e, "Exception") THEN Msg("Error", NoChars, e.msg)
    ELSE Msg("propagate", NoChars, "")

NoFile == [state |-> "absent", pages |-> <<>>, key |-> NoChars]
OldFile == [state |-> "old", pages |-> <<>>, key |-> NoChars]
\* open(output_pdf, 'wb') creates the file or truncates it.
EmptyFile == [state |-> "empty", pages |-> <<>>, key |-> NoChars]
\* Some of the bytes of the document, not all of them.
PartialFile == [state |-> "partial", pages |-> <<>>, key |-> NoChars]
NewWriter == [pages |-> <<>>, key |-> NoChars, encrypted |-> FALSE]

\* Faulty variant: the generated password is not displayed.
generated_not_shown(first, pw) == << Msg(first, NoChars, "") >>

\* Lines 127-130 and 138-141: the announcement (`first`), the call of
\* generate_random_password and the display of its result.
generated_messages(first, pw) ==
    << Msg(first, NoChars, ""), Msg("Generated", pw, "") >>

\* Faulty variant: `break` reached after a rejected entry too.
after_entry_always_break(entry) == "resolved"

\* Lines 137-150: where the loop goes after an entry: `break` on an empty
\* entry and on an entry that validates, another iteration otherwise.
after_entry(entry) ==
    IF entry = <<>> THEN "resolved"
    ELSE IF validate_password_strength(entry) = "True" THEN "resolved"
    ELSE "prompt"

\* Faulty variant: the page inserted in front.
add_page_in_front(w, page) == [w EXCEPT !.pages = <<page>> \o @]

\* Line 91: pdf_writer.add_page(page).
add_page(w, page) == [w EXCEPT !.pages = Append(@, page)]

\* Lines 124-130: the answer to the first prompt.
Ask ==
    /\ pc = "ask"
    /\ \E answer \in Answers :
         IF lower(strip(answer)) = <<"y">>
         THEN \E rng \in RunRng :
                LET pw == generate_random_password(rng) IN
                /\ password' = pw
                /\ out' = out \o generated_messages("Generating", pw)
                /\ pc' = "resolved"
         ELSE /\ pc' = "prompt"
              /\ UNCHANGED <<password, out>>
    /\ UNCHANGED <<typed, exc, inputKind, inPages, inHandle, reader, copied,
                   writer, outHandle, output, exited, valVars, genVars>>

\* Lines 133-150: one iteration of the while loop.
Prompt ==
    /\ pc = "prompt"
    /\ Len(typed) < MaxAttempts
    /\ \E entry \in Entries :
         /\ typed' = Append(typed, entry)
         /\ IF entry = <<>>
            THEN \E rng \in RunRng :
                   LET pw == generate_random_password(rng) IN
                   /\ password' = pw
                   /\ out' = out \o generated_messages("NoPassword", pw)
                   /\ pc' = after_entry(entry)
            ELSE /\ password' = entry
                 /\ pc' = after_entry(entry)
                 /\ IF validate_password_strength(entry) = "True"
                    THEN out' = out
                    ELSE out' = out \o
                              << Msg("PasswordError", NoChars,
                                     validate_password_strength(entry)),
                                 Msg("TryAgain", NoChars, "") >>
    /\ UNCHANGED <<exc, inputKind, inPages, inHandle, reader, copied, writer,
                   outHandle, output, exited, valVars, genVars>>

\* Lines 152, 79-82: the call, the validation and the "Locking" message.
CreateValidate ==
    /\ pc = "resolved"
    /\ IF validate_password_strength(password) = "True"
       THEN /\ out' = Append(out, Msg("Locking", password, ""))
            /\ pc' = "open_in"
            /\ exc' = exc
       ELSE /\ exc' = Raise("ValueError", validate_password_strength(password))
            /\ pc' = "except"
            /\ out' = out
    /\ UNCHANGED <<password, typed, inputKind, inPages, inHandle, reader,
                   copied, writer, outHandle, output, exited, valVars, genVars>>

\* Line 85: open(input_pdf, 'rb').
OpenInput ==
    /\ pc = "open_in"
    /\ CASE inputKind = "missing" ->
              /\ exc' = Raise("FileNotFoundError", "No such file or directory")
              /\ pc' = "except"
              /\ inHandle' = inHandle
         [] inputKind = "denied" ->
              /\ exc' = Raise("PermissionError", "Permission denied")
              /\ pc' = "except"
              /\ inHandle' = inHandle
         [] OTHER ->
              /\ inHandle' = TRUE
              /\ pc' = "parse"
              /\ exc' = exc
    /\ UNCHANGED <<password, typed, out, inputKind, inPages, reader, copied,
                   writer, outHandle, output, exited, valVars, genVars>>

\* Lines 86-87: PdfReader(pdf_file) and PdfWriter().  A malformed file is
\* rejected here or, when the reader is lenient, at the first use of its pages.
ParseInput ==
    /\ pc = "parse"
    /\ \/ /\ inputKind = "malformed"
          /\ exc' = Raise("PdfReadError", "EOF marker not found")
          /\ pc' = "except"
          /\ inHandle' = FALSE
          /\ UNCHANGED <<reader, writer>>
       \/ /\ reader' = TRUE
          /\ writer' = NewWriter
          /\ pc' = "copy"
          /\ UNCHANGED <<exc, inHandle>>
    /\ UNCHANGED <<password, typed, out, inputKind, inPages, copied,
                   outHandle, output, exited, valVars, genVars>>

\* Lines 90-91: one iteration of the loop over pdf_reader.pages.
CopyPage ==
    /\ pc = "copy"
    /\ \/ /\ inputKind = "malformed"
          /\ exc' = Raise("PdfReadError", "Could not read the page tree")
          /\ pc' = "except"
          /\ inHandle' = FALSE
          /\ UNCHANGED <<copied, writer>>
       \/ /\ inputKind = "pdf"
          /\ copied < Len(inPages)
          /\ \/ /\ copied' = copied + 1
                /\ writer' = add_page(writer, inPages[copied + 1])
                /\ UNCHANGED <<pc, exc, inHandle>>
             \/ /\ \E cls \in CollabErrors : exc' = Raise(cls, "add_page failed")
                /\ pc' = "except"
                /\ inHandle' = FALSE
                /\ UNCHANGED <<copied, writer>>
    /\ UNCHANGED <<password, typed, out, inputKind, inPages, reader,
                   outHandle, output, exited, valVars, genVars>>

\* Line 94: pdf_writer.encrypt(password), once the loop is over.
Encrypt ==
    /\ pc = "copy"
    /\ inputKind = "pdf"
    /\ copied = Len(inPages)
    /\ \/ /\ writer' = [writer EXCEPT !.key = password, !.encrypted = TRUE]
          /\ pc' = "open_out"
          /\ UNCHANGED <<exc, inHandle>>
       \/ /\ \E cls \in CollabErrors : exc' = Raise(cls, "encrypt failed")
          /\ pc' = "except"
          /\ inHandle' = FALSE
          /\ UNCHANGED writer
    /\ UNCHANGED <<password, typed, out, inputKind, inPages, reader, copied,
                   outHandle, output, exited, valVars, genVars>>

\* Line 97: open(output_pdf, 'wb').
OpenOutput ==
    /\ pc = "open_out"
    /\ \/ /\ outHandle' = TRUE
          /\ output' = EmptyFile
          /\ pc' = "write"
          /\ UNCHANGED <<exc, inHandle>>
       \/ /\ \E cls \in {"FileNotFoundError", "PermissionError"} :
               exc' = Raise(cls, "cannot open the output path")
          /\ pc' = "except"
          /\ inHandle' = FALSE
          /\ UNCHANGED <<outHandle, output>>
    /\ UNCHANGED <<password, typed, out, inputKind, inPages, reader, copied,
                   writer, exited, valVars, genVars>>

\* Line 98: pdf_writer.write(output_file), and the end of the inner with.
Write ==
    /\ pc = "write"
    /\ \/ /\ output' = [state |-> "complete", pages |-> writer.pages,
                        key |-> writer.key]
          /\ outHandle' = FALSE
          /\ pc' = "written"
          /\ UNCHANGED <<exc, inHandle>>
       \/ /\ \E cls \in CollabErrors \cup {"OSError"} :
               exc' = Raise(cls, "write failed")
          /\ \E left \in {EmptyFile, PartialFile} : output' = left
          /\ outHandle' = FALSE
          /\ inHandle' = FALSE
          /\ pc' = "except"
    /\ UNCHANGED <<password, typed, out, inputKind, inPages, reader, copied,
                   writer, exited, valVars, genVars>>

\* Line 100: the confirmation, and the end of the outer with.
Confirm ==
    /\ pc = "written"
    /\ out' = Append(out, Msg("Saved", NoChars, ""))
    /\ inHandle' = FALSE
    /\ pc' = "done"
    /\ UNCHANGED <<password, typed, exc, inputKind, inPages, reader, copied,
                   writer, outHandle, output, exited, valVars, genVars>>

\* Lines 102-109: the except clauses.
Handle ==
    /\ pc = "except"
    /\ IF except_clause(exc).k = "propagate"
       THEN /\ pc' = "crashed"
            /\ UNCHANGED <<out, exc>>
       ELSE /\ out' = Append(out, except_clause(exc))
            /\ exc' = NoExc
            /\ pc' = "failed"
    /\ UNCHANGED <<password, typed, inputKind, inPages, inHandle, reader,
                   copied, writer, outHandle, output, exited, valVars, genVars>>

\* Line 154: the closing note, after create_password_protected_pdf returned.
Finish ==
    /\ pc \in {"done", "failed"}
    /\ ~ exited
    /\ out' = Append(out, Msg("Note", NoChars, ""))
    /\ exited' = TRUE
    /\ UNCHANGED <<pc, password, typed, exc, inputKind, inPages, inHandle,
                   reader, copied, writer, outHandle, output, valVars, genVars>>

----------------------------------------------------------------------------
(* Specifications *)

IdleVal == candidate = <<>> /\ verdict = "idle"
IdleGen == gpc = "idle" /\ glist = <<>> /\ gresult = <<>>
IdleRun ==
    /\ pc = "idle" /\ password = NoChars /\ typed = <<>> /\ out = <<>>
    /\ exc = NoExc /\ inputKind = "missing" /\ inPages = <<>>
    /\ inHandle = FALSE /\ reader = FALSE /\ copied = 0 /\ writer = NewWriter
    /\ outHandle = FALSE /\ output = NoFile /\ exited = FALSE

\* A call of validate_password_strength on a candidate.
InitValidate ==
    /\ candidate \in Candidates
    /\ verdict = "pending"
    /\ IdleGen /\ IdleRun

NextValidate == ValidateCall

SpecValidate == InitValidate /\ [][NextValidate]_vars

\* A call of generate_random_password.
InitGenerate ==
    /\ gpc = "start" /\ glist = <<>> /\ gresult = <<>>
    /\ IdleVal /\ IdleRun

NextGenerate == GenMandatory \/ GenFill \/ GenShuffle \/ GenReturn

SpecGenerate == InitGenerate /\ [][NextGenerate]_vars

\* A run of main, after the arguments were parsed.
Init ==
    /\ pc = "ask" /\ password = NoChars /\ typed = <<>> /\ out = <<>>
    /\ exc = NoExc
    /\ inputKind \in {"missing", "denied", "malformed", "pdf"}
    /\ inPages \in IF inputKind = "pdf"
                   THEN { [i \in 1..n |-> i] : n \in 0..MaxPages }
                   ELSE { <<>> }
    /\ inHandle = FALSE /\ reader = FALSE /\ copied = 0 /\ writer = NewWriter
    /\ outHandle = FALSE
    /\ output \in {NoFile, OldFile}
    /\ exited = FALSE
    /\ IdleVal /\ IdleGen

Next ==
    \/ Ask \/ Prompt \/ CreateValidate \/ OpenInput \/ ParseInput \/ CopyPage
    \/ Encrypt \/ OpenOutput \/ Write \/ Confirm \/ Handle \/ Finish

Spec == Init /\ [][Next]_vars

----------------------------------------------------------------------------
(* The password policy, stated independently of validate_password_strength *)

SpecialSet == {"!", "@", "#", "$", "%", "^", "&", "*", "(", ")",
               "-", "_", "+", "=", "<", ">", "?", "/"}
DigitSet == {"0", "1", "2", "3", "4", "5", "6", "7", "8", "9"}

HasDigit(p) == \E i \in 1..Len(p) : p[i] \in DigitSet
HasUpper(p) == \E i \in 1..Len(p) : p[i] \in UpperChars
HasLower(p) == \E i \in 1..Len(p) : p[i] \in LowerChars
HasSpecial(p) == \E i \in 1..Len(p) : p[i] \in SpecialSet

MeetsPolicy(p) ==
    /\ Len(p) >= 16
    /\ HasDigit(p) /\ HasUpper(p) /\ HasLower(p) /\ HasSpecial(p)

Violations == {MsgTooShort, MsgNoDigit, MsgNoUpper, MsgNoLower, MsgNoSpecial}

Called == verdict \notin {"pending", "idle"}

----------------------------------------------------------------------------
(* Claims about validate_password_strength, under SpecValidate *)

\* C1: validate_password_strength returns True if and only if the candidate
\* has at least 16 characters and holds a digit, an uppercase letter, a
\* lowercase letter and a character of the special set; in every other case
\* it raises one of the five violations.
C1_ValidateIffPolicy ==
    Called =>
        /\ (verdict = "True") <=> MeetsPolicy(candidate)
        /\ verdict # "True" => verdict \in Violations

\* A candidate of exactly 16 characters was accepted.
C1_Witness ==
    /\ Called /\ verdict = "True" /\ Len(candidate) = 16
    /\ candidate[16] = "/"

\* C9: the violation reported is the first failing check in the order
\* length, digit, uppercase, lowercase, special character: a candidate
\* shorter than 16 characters (the empty one included) is TooShort whatever
\* it lacks, and a longer one gets the earliest missing category.
C9_FirstFailureWins ==
    Called =>
        LET p == candidate IN
        /\ Len(p) < 16 => verdict = MsgTooShort
        /\ (Len(p) >= 16 /\ ~ HasDigit(p)) => verdict = MsgNoDigit
        /\ (Len(p) >= 16 /\ HasDigit(p) /\ ~ HasUpper(p)) => verdict = MsgNoUpper
        /\ (Len(p) >= 16 /\ HasDigit(p) /\ HasUpper(p) /\ ~ HasLower(p))
               => verdict = MsgNoLower
        /\ (Len(p) >= 16 /\ HasDigit(p) /\ HasUpper(p) /\ HasLower(p)
               /\ ~ HasSpecial(p)) => verdict = MsgNoSpecial

\* A candidate that lacks two categories was reported for the earlier one.
C9_Witness ==
    /\ Called /\ Len(candidate) >= 16
    /\ HasDigit(candidate) /\ ~ HasUpper(candidate)
    /\ HasLower(candidate) /\ ~ HasSpecial(candidate)
    /\ verdict = MsgNoUpper

----------------------------------------------------------------------------
(* Claims about generate_random_password, under SpecGenerate *)

UnionAlphabet == DigitSet \cup UpperChars \cup LowerChars \cup SpecialSet

InAlphabet(list) ==
    \A i \in 1..Len(list) :
        list[i] \in UnionAlphabet

\* C2: whatever the random choices and the shuffle, generate_random_password
\* returns exactly 16 characters that pass validate_password_strength: four
\* mandatory characters, one per category, then 12 characters of the union
\* alphabet, then a shuffle that keeps the length and the categories.
C2_GeneratedIsValid ==
    /\ gpc = "mandatory" =>
          /\ Len(glist) = 4
          /\ glist[1] \in DigitSet /\ glist[2] \in UpperChars
          /\ glist[3] \in SpecialSet /\ glist[4] \in LowerChars
    /\ gpc \in {"filled", "shuffled"} =>
          /\ Len(glist) = 16 /\ InAlphabet(glist) /\ MeetsPolicy(glist)
    /\ gpc = "returned" =>
          /\ Len(gresult) = 16
          /\ InAlphabet(gresult)
          /\ MeetsPolicy(gresult)
          /\ validate_password_strength(gresult) = "True"

\* A password was returned whose mandatory digit is no longer in front.
C2_Witness ==
    /\ gpc = "returned" /\ Len(gresult) = 16
    /\ gresult[1] \notin DigitSet
    /\ gresult[16] \in DigitSet

----------------------------------------------------------------------------
(* Claims about a run of main, under Spec *)

Last(q) == q[Len(q)]

\* The positions inside create_password_protected_pdf, and after it.
Awaiting == pc \in {"ask", "prompt"}
ErrorKinds == {"NotFound", "NotValidPdf", "PasswordError", "Error"}
Printed(k) == \E i \in 1..Len(out) : out[i].k = k
Untouched == output.state \in {"absent", "old"} /\ ~ outHandle

\* The violation reports of the re-prompt loop, in order.
IsReport(m) == m.k = "PasswordError" /\ m.msg \in Violations
Reports == SelectSeq(out, IsReport)

\* The password in use was generated: the caller answered y, or entered
\* nothing at the password prompt.
AutoGenerated == ~ Awaiting /\ (typed = <<>> \/ Last(typed) = <<>>)

\* C3: the password with which the run enters create_password_protected_pdf,
\* and with which encrypt is called, satisfies the policy: the validation
\* inside create_password_protected_pdf never fails.
C3_EncryptOnlyValid ==
    /\ ~ Awaiting => MeetsPolicy(password)
    /\ writer.encrypted => (writer.key = password /\ MeetsPolicy(writer.key))
    /\ pc = "except" => exc.msg \notin Violations
    /\ \A i \in 1..Len(out) : out[i].k = "Locking" => MeetsPolicy(out[i].pw)

\* encrypt was called with a password typed after a rejected entry.
C3_Witness ==
    /\ writer.encrypted
    /\ Len(typed) = 2 /\ password = typed[2]
    /\ ~ MeetsPolicy(typed[1])

\* C4: a run that reaches Done has written an output document that holds
\* every page of the input, in the same order and number, encrypted with the
\* resolved password; the confirmation is printed only once the output is
\* written, and a run that printed no error ends in Done.
C4_DoneMeansFaithfulOutput ==
    /\ pc = "done" =>
          /\ inputKind = "pdf"
          /\ output = [state |-> "complete", pages |-> inPages, key |-> password]
          /\ Printed("Saved")
          /\ ~ inHandle /\ ~ outHandle
    /\ Printed("Saved") => (pc = "done" /\ output.state = "complete")
    /\ pc = "written" => (output.state = "complete" /\ ~ Printed("Saved"))
    /\ (exited /\ \A i \in 1..Len(out) : out[i].k \notin ErrorKinds) => pc = "done"

\* The scenario of the specification: three pages, the password
\* Abcdef1!ghijklmno, and the run is over.
C4_Witness ==
    /\ pc = "done" /\ exited
    /\ Len(inPages) = 3 /\ output.pages = <<1, 2, 3>>
    /\ output.key =
         <<"A","b","c","d","e","f","1","!","g","h","i","j","k","l","m","n","o">>

\* C5: when the input path does not exist, or the input is no PDF, the run
\* reports that error and aborts and the output path is never created nor
\* written; the output path is opened only after the input was opened and
\* parsed, its pages all copied and encrypt applied.
C5_InputErrorsLeaveOutputAlone ==
    /\ inputKind \in {"missing", "malformed"} =>
          /\ Untouched
          /\ pc \notin {"open_out", "write", "written", "done"}
          /\ ~ Printed("Saved")
    /\ (inputKind = "missing" /\ pc = "failed") =>
          (\E i \in 1..Len(out) : out[i].k = "NotFound"
              /\ \A j \in 1..Len(out) : out[j].k \in ErrorKinds \ {"NotFound"} => j < i
                    /\ IsReport(out[j]))
    /\ (inputKind = "malformed" /\ pc = "failed") =>
          (\E i \in 1..Len(out) : out[i].k = "NotValidPdf"
              /\ \A j \in 1..Len(out) : out[j].k \in ErrorKinds \ {"NotValidPdf"} => j < i
                    /\ IsReport(out[j]))
    /\ ~ Untouched =>
          /\ inputKind = "pdf" /\ reader
          /\ copied = Len(inPages) /\ writer.pages = inPages
          /\ writer.encrypted

\* A malformed input that the reader accepted at first was reported, over
\* an output file that existed before the run.
C5_Witness ==
    /\ exited /\ pc = "failed"
    /\ inputKind = "malformed" /\ reader
    /\ output = OldFile

\* C6: a run that ends in Failed leaves the output path absent or untouched,
\* or holding a complete encrypted document, never a half-written one.
C6_NoHalfWrittenOutput ==
    pc = "failed" => output.state \in {"absent", "old", "complete"}

\* C7: on the manual path every non-empty entry that fails validation gets
\* its own violation reported, followed by a new prompt, with no file opened
\* and no encryption attempted; the loop is left only on an empty entry or
\* on the first entry that validates: k invalid entries followed by a valid
\* one give exactly k reports, and the valid entry is the password used.
C7_RepromptLoop ==
    /\ Awaiting =>
          /\ ~ inHandle /\ ~ outHandle /\ ~ reader /\ Untouched
          /\ writer = NewWriter /\ ~ Printed("Locking")
          /\ \A i \in 1..Len(typed) : typed[i] # <<>> /\ ~ MeetsPolicy(typed[i])
          /\ Len(Reports) = Len(typed)
    /\ (~ Awaiting /\ typed # <<>>) =>
          /\ Last(typed) = <<>> \/ MeetsPolicy(Last(typed))
          /\ \A i \in 1..(Len(typed) - 1) :
                typed[i] # <<>> /\ ~ MeetsPolicy(typed[i])
          /\ Len(Reports) = Len(typed) - 1
          /\ Last(typed) # <<>> => password = Last(typed)
    /\ \A i \in 1..Len(Reports) :
          Reports[i].msg = validate_password_strength(typed[i])
    /\ \A i \in 1..Len(out) :
          IsReport(out[i]) => (i < Len(out) /\ out[i + 1].k = "TryAgain")

\* The scenario of the specification, with one more rejected entry: short1A!
\* was reported as too short, and the output is encrypted with the third entry.
C7_Witness ==
    /\ Len(typed) = 3 /\ Len(Reports) = 2
    /\ typed[1] = <<"s","h","o","r","t","1","A","!">>
    /\ Reports[1].msg = MsgTooShort
    /\ Reports[2].msg = MsgNoSpecial
    /\ output.state = "complete" /\ output.key = typed[3]

\* C8: when the password was generated (answer y, or an empty entry, which
\* is neither reported as a violation nor prompted for again), it is
\* displayed before create_password_protected_pdf is entered, and the
\* password used to encrypt is exactly the displayed one.
C8_GeneratedIsShown ==
    /\ AutoGenerated =>
          \E i \in 1..Len(out) :
             /\ out[i] = Msg("Generated", password, "")
             /\ i > 1 /\ out[i - 1].k = (IF typed = <<>> THEN "Generating" ELSE "NoPassword")
             /\ \A j \in 1..Len(out) : out[j].k = "Generated" => j = i
             /\ \A j \in 1..Len(out) :
                   out[j].k \in {"Locking", "Saved", "Note"} \cup (ErrorKinds \ {"PasswordError"})
                      => (j > i /\ out[j].pw \in {NoChars, password})
             /\ \A j \in 1..Len(out) : IsReport(out[j]) => j < i
             /\ writer.encrypted => writer.key = out[i].pw
             /\ output.state = "complete" => output.key = out[i].pw
    /\ (typed # <<>> /\ Last(typed) = <<>>) =>
          (~ Awaiting /\ Len(Reports) = Len(typed) - 1)
    /\ Printed("Generated") => AutoGenerated

\* An empty entry after a rejected one: the generated password was shown
\* and the output is encrypted with it.
C8_Witness ==
    /\ AutoGenerated /\ Len(typed) = 2 /\ typed[2] = <<>>
    /\ output.state = "complete"
    /\ Printed("Generated")

\* C10: every failure inside create_password_protected_pdf is caught and
\* reported, the run moves to Failed and main returns normally: nothing
\* propagates, a finished run is in exactly one of Done and Failed, and a
\* Failed run never prints the confirmation.
C10_FailuresAreReported ==
    /\ pc # "crashed"
    /\ pc = "failed" =>
          /\ exc = NoExc
          /\ ~ Printed("Saved")
          /\ out # <<>>
          /\ IF exited
             THEN Last(out).k = "Note" /\ Len(out) > 1
                  /\ out[Len(out) - 1].k \in ErrorKinds
                  /\ ~ IsReport(out[Len(out) - 1])
             ELSE Last(out).k \in ErrorKinds /\ ~ IsReport(Last(out))
    /\ pc = "done" =>
          /\ Printed("Saved")
          /\ \A i \in 1..Len(out) : out[i].k \in ErrorKinds => IsReport(out[i])
    /\ exited => pc \in {"done", "failed"}
    /\ pc = "except" => exc # NoExc
    /\ ~ inHandle \/ pc \in {"parse", "copy", "open_out", "write", "written"}
    /\ outHandle => pc = "write"

\* A write error after encrypt was reported and main returned.
C10_Witness ==
    /\ exited /\ pc = "failed"
    /\ writer.encrypted /\ output.state = "partial"
    /\ out[Len(out) - 1] = Msg("Error", NoChars, "write failed")

====
